---- MODULE Spec2Model ----
(***************************************************************************)
(* State-machine model of juce::SamplerSound / juce::SamplerVoice          *)
(* (modules/juce_audio_formats/sampler/juce_Sampler.cpp).                  *)
(*                                                                         *)
(* Real-valued quantities are kept as exact fixed-point integers:          *)
(*   sourceSamplePosition, pitchRatio   in units of 1/PosDen frames        *)
(*   lgain, rgain (velocity)            in units of 1/VelDen               *)
(*   envelope values, startingGain      in units of 1/EnvDen               *)
(*   audio frames of output/fadeBuffer  in units of 1/Unit                 *)
(*   audio frames of a Sound's data     as integers                        *)
(***************************************************************************)
EXTENDS Integers, Sequences, FiniteSets, TLC

\* ------------------------------------------------------------------ bounds
\* frames of the voice's fade buffer (SamplerVoice's constructor argument)
BufferSize == 2

\* ------------------------------------------------------------------ scales
PosDen == 2
VelDen == 2
EnvDen == 2

Min(a, b) == IF a < b THEN a ELSE b

RECURSIVE Pow2(_)
Pow2(n) == IF n <= 0 THEN 1 ELSE 2 * Pow2(n - 1)

RECURSIVE Gcd(_, _)
Gcd(a, b) == IF b = 0 THEN a ELSE Gcd(b, a % b)

RECURSIVE LcmUpTo(_)
LcmUpTo(n) == IF n <= 1 THEN 1 ELSE (LcmUpTo(n - 1) * n) \div Gcd(LcmUpTo(n - 1), n)

\* one frame contribution of the render loop is a multiple of FrameUnit/Unit;
\* the gain ramp multiplies by startingGain/EnvDen and by (end - i)/end.
FrameUnit == EnvDen * LcmUpTo(BufferSize)
Unit == 2 * PosDen * VelDen * EnvDen * FrameUnit

\* frames of the host's output buffer: one more than the voice's bufferSize,
\* the voice never checks the host's block size against its own
OutLen == BufferSize + 1

\* ------------------------------------------------------------ AudioBuffer
\* an AudioBuffer<float> is a function channel -> (frame -> value)
NumChannels(b) == Cardinality(DOMAIN b)
NumFrames(b) == IF DOMAIN b = {} THEN 0 ELSE Cardinality(DOMAIN b[0])

AudioBuffer(numCh, numFr) == [c \in 0 .. numCh - 1 |-> [i \in 0 .. numFr - 1 |-> 0]]

\* AudioBuffer::clear (startSample, numSamples) on every channel
clear(b, startSample, numSamples) ==
    [c \in DOMAIN b |->
        [i \in DOMAIN b[c] |->
            IF i >= startSample /\ i < startSample + numSamples THEN 0 ELSE b[c][i]]]

\* AudioBuffer::applyGainRamp: frame i of the range is multiplied by
\* startGain + i * (endGain - startGain) / numSamples, here with endGain = 0
\* and startGain in units of 1/EnvDen
applyGainRamp(b, channel, startSample, numSamples, startGain) ==
    [b EXCEPT ![channel] =
        [i \in DOMAIN b[channel] |->
            IF i >= startSample /\ i < startSample + numSamples
            THEN (b[channel][i] * startGain * (numSamples - (i - startSample)))
                     \div (EnvDen * numSamples)
            ELSE b[channel][i]]]

\* ------------------------------------------------------------------- ADSR
\* juce::ADSR with sustain level 1, so that the decay stage is empty.
\* attack and release are lengths in samples (seconds times sample rate).
ADSRInit == [state |-> "idle", envelopeVal |-> 0, attack |-> 0, release |-> 0]

adsrSetParameters(a, attack, release) == [a EXCEPT !.attack = attack, !.release = release]

adsrReset(a) == [a EXCEPT !.state = "idle", !.envelopeVal = 0]

adsrNoteOn(a) ==
    IF a.attack > 0
    THEN [a EXCEPT !.state = "attack"]
    ELSE [a EXCEPT !.state = "sustain", !.envelopeVal = EnvDen]

adsrNoteOff(a) ==
    IF a.state = "idle" THEN a
    ELSE IF a.release > 0 THEN [a EXCEPT !.state = "release"]
    ELSE adsrReset(a)

\* the envelope generator after one getNextSample(); the value returned is
\* the new envelopeVal
adsrGetNextSample(a) ==
    CASE a.state = "idle" -> a
      [] a.state = "attack" ->
            LET nv == a.envelopeVal + (EnvDen \div a.attack)
            IN  IF nv >= EnvDen
                THEN [a EXCEPT !.envelopeVal = EnvDen, !.state = "sustain"]
                ELSE [a EXCEPT !.envelopeVal = nv]
      [] a.state = "sustain" -> [a EXCEPT !.envelopeVal = EnvDen]
      [] OTHER ->
            LET nv == a.envelopeVal - (EnvDen \div a.release)
            IN  IF nv <= 0 THEN adsrReset(a) ELSE [a EXCEPT !.envelopeVal = nv]

\* ----------------------------------------------------------- SamplerSound
\* getSampleRate(): the host's sample rate, in the same unit as the sources'
HostSampleRate == 1

\* the frames AudioFormatReader::read delivers: the source's, then zeros
readSource(source, c, i) ==
    IF i < source.lengthInSamples THEN source.frames[c + 1][i + 1] ELSE 0

\* SamplerSound::SamplerSound: data stays unallocated (<< >>) and length 0
\* unless the source has a positive rate and a positive length
SamplerSound(source, notes, midiNoteForNormalPitch, attackTimeSecs, releaseTimeSecs, maxSampleLengthSeconds) ==
    LET valid  == source.sampleRate > 0 /\ source.lengthInSamples > 0
        length == Min(source.lengthInSamples, maxSampleLengthSeconds * source.sampleRate)
        numCh  == Min(2, source.numChannels)
    IN  [sourceSampleRate |-> source.sampleRate,
         midiNotes        |-> notes,
         midiRootNote     |-> midiNoteForNormalPitch,
         length           |-> IF valid THEN length ELSE 0,
         data             |-> IF valid
                              THEN [c \in 0 .. numCh - 1 |->
                                      [i \in 0 .. length + 4 - 1 |-> readSource(source, c, i)]]
                              ELSE << >>,
         params           |-> IF valid
                              THEN [attack |-> attackTimeSecs, release |-> releaseTimeSecs]
                              ELSE [attack |-> 0, release |-> 0]]

\* the PCM sources of the model: a mono DC-unit sample, a stereo sample at
\* twice the host rate that is longer than its cap, and two sources that
\* give an empty Sound (no rate, no frames)
SourceDC     == [sampleRate |-> 1, lengthInSamples |-> 3, numChannels |-> 1,
                 frames |-> << <<1, 1, 1>> >>]
SourceStereo == [sampleRate |-> 2, lengthInSamples |-> 3, numChannels |-> 2,
                 frames |-> << <<1, 2, 1>>, <<2, 0, 2>> >>]
SourceNoRate == [sampleRate |-> 0, lengthInSamples |-> 3, numChannels |-> 1,
                 frames |-> << <<1, 1, 1>> >>]
SourceNoLen  == [sampleRate |-> 1, lengthInSamples |-> 0, numChannels |-> 1,
                 frames |-> << << >> >>]

\* the Sounds of the synthesiser, each with the notes it answers to: the
\* root note 60 and whole octaves around it
Sounds == << SamplerSound(SourceDC, {48, 60, 72}, 60, 0, 0, 3),
             SamplerSound(SourceStereo, {48, 84}, 60, 1, 1, 1),
             SamplerSound(SourceNoRate, {60}, 60, 0, 0, 3),
             SamplerSound(SourceNoLen, {60}, 60, 0, 0, 3) >>

SoundIds == 1 .. Len(Sounds)
\* a SynthesiserSound::Ptr is an index into Sounds, nullptr is 0
nullptr == 0
IsEmptySound(s) == DOMAIN Sounds[s].data = {}

\* SamplerSound::appliesToNote
appliesToNote(s, midiNoteNumber) == midiNoteNumber \in Sounds[s].midiNotes
\* the note-on events of the host: the lowest note is played at half
\* velocity, the others at full velocity
NoteOns == {[midiNoteNumber |-> n, velocity |-> IF n < 60 THEN 1 ELSE VelDen] :
               n \in UNION {Sounds[s].midiNotes : s \in SoundIds}}
\* what a read of memory that is not the buffer's may deliver
Garbage == {0, 1}

\* ----------------------------------------------------------- SamplerVoice
\* SamplerVoice::SamplerVoice and the members' initial values
SamplerVoice(iBufferSize) ==
    [bufferSize             |-> iBufferSize,
     fadeBuffer             |-> AudioBuffer(2, iBufferSize),
     pitchRatio             |-> 0,
     sourceSamplePosition   |-> 0,
     lgain                  |-> 0,
     rgain                  |-> 0,
     adsr                   |-> ADSRInit,
     startingGain           |-> 0,
     isFading               |-> FALSE,
     renderingFade          |-> FALSE,
     currentlyPlayingSound  |-> nullptr]

\* what the model records about the handler that ran last
MonInit ==
    [branch     |-> "-",     \* branch of the host's renderNextBlock: A, B or C
     frames     |-> 0,       \* loop iterations of the host's renderNextBlock
     overrun    |-> FALSE,   \* the host's renderNextBlock called stopNote
     badRead    |-> "none",  \* a read of Sound data: "oob" or "null" if invalid
     badFadeRead |-> FALSE,  \* a read of the fade buffer past its last frame
     decreased  |-> FALSE,   \* sourceSamplePosition went down or below zero
     fadeRenders |-> 0,      \* renderNextBlock calls on the fade buffer
     suppressed |-> 0,       \* stopNote calls cut short by renderingFade
     nestedChanged |-> FALSE, \* such a stopNote call changed the voice
     generated  |-> << >>,   \* the fade buffer as the last fade-generation
                             \* render left it, before the gain ramp
     fadeGain   |-> -1]      \* the envelope value of the first frame of the
                             \* last fade-generation render, -1 if it had none

pitchRatioOf_ignoresRate(midiNoteNumber, midiRootNote, sourceSampleRate) ==
    LET d == midiNoteNumber - midiRootNote
    IN  IF d >= 0 THEN PosDen * Pow2(d \div 12) ELSE PosDen \div Pow2((0 - d) \div 12)

\* 2^((midiNoteNumber - midiRootNote) / 12) * sourceSampleRate / getSampleRate(),
\* in units of 1/PosDen; exact for the whole octaves of Notes
pitchRatioOf(midiNoteNumber, midiRootNote, sourceSampleRate) ==
    LET d == midiNoteNumber - midiRootNote
    IN  IF d >= 0
        THEN (PosDen * Pow2(d \div 12) * sourceSampleRate) \div HostSampleRate
        ELSE (PosDen * sourceSampleRate) \div (Pow2((0 - d) \div 12) * HostSampleRate)

\* SamplerVoice::startNote on a SamplerSound
startNote(st, midiNoteNumber, velocity, s) ==
    LET sound == Sounds[s]
        a1 == adsrSetParameters(st.voice.adsr,
                                sound.params.attack * sound.sourceSampleRate,
                                sound.params.release * sound.sourceSampleRate)
    IN  [st EXCEPT !.voice.pitchRatio =
                        pitchRatioOf(midiNoteNumber, sound.midiRootNote, sound.sourceSampleRate),
                   !.voice.sourceSamplePosition = 0,
                   !.voice.lgain = velocity,
                   !.voice.rgain = velocity,
                   !.voice.adsr = adsrNoteOn(a1)]

\* Synthesiser::startVoice: the host makes the sound the voice's current
\* sound and then calls startNote
startVoice(st, midiNoteNumber, velocity, s) ==
    startNote([st EXCEPT !.voice.currentlyPlayingSound = s], midiNoteNumber, velocity, s)

\* SynthesiserVoice::clearCurrentNote
clearCurrentNote(st) == [st EXCEPT !.voice.currentlyPlayingSound = nullptr]

\* ------------------------------------------------------- renderNextBlock
RECURSIVE renderLoop(_, _, _, _, _, _, _)
RECURSIVE renderNextBlock(_, _, _, _, _)
RECURSIVE stopNote(_, _, _)

\* outputBuffer is the host's buffer ("out") or, in the call stopNote makes,
\* the voice's own fadeBuffer ("fade")
bufferOf(st, target) == IF target = "fade" THEN st.voice.fadeBuffer ELSE st.output
withBuffer(st, target, b) ==
    IF target = "fade" THEN [st EXCEPT !.voice.fadeBuffer = b] ELSE [st EXCEPT !.output = b]

\* inL[idx] / inR[idx]: a read outside the data buffer, or through the null
\* data pointer of an empty Sound, delivers ub
validRead(sound, idx) ==
    IF DOMAIN sound.data = {} THEN "null"
    ELSE IF idx \in DOMAIN sound.data[0] THEN "none" ELSE "oob"
dataAt(sound, c, idx, ub) ==
    IF validRead(sound, idx) = "none" THEN sound.data[c][idx] ELSE ub

\* inX[pos] * invAlpha + inX[pos + 1] * alpha, in units of 1/PosDen
interpolate(sound, c, position, ub) ==
    LET pos      == position \div PosDen
        alpha    == position % PosDen
        invAlpha == PosDen - alpha
    IN  dataAt(sound, c, pos, ub) * invAlpha + dataAt(sound, c, pos + 1, ub) * alpha

\* *out++ += x
accumulate_overwrite(old, x) == x
accumulate(old, x) == old + x

\* sourceSamplePosition += pitchRatio
advance_backwards(position, pitchRatio) == position - pitchRatio
advance(position, pitchRatio) == position + pitchRatio

\* sourceSamplePosition > playingSound->length
pastEnd_inclusive(position, length) == position >= length * PosDen
pastEnd(position, length) == position > length * PosDen

\* one iteration of the while loop up to the advance of the read position:
\* w is the frame outL/outR point at
renderFrame(st, target, s, w, captureStartingGain, ub) ==
    LET sound == Sounds[s]
        v     == st.voice
        pos   == v.sourceSamplePosition \div PosDen
        l0    == interpolate(sound, 0, v.sourceSamplePosition, ub)
        r0    == IF NumChannels(sound.data) > 1
                 THEN interpolate(sound, 1, v.sourceSamplePosition, ub)
                 ELSE l0
        a1    == adsrGetNextSample(v.adsr)
        envelopeValue == a1.envelopeVal
        l     == l0 * v.lgain * envelopeValue
        r     == r0 * v.rgain * envelopeValue
        b     == bufferOf(st, target)
        b1    == IF NumChannels(b) > 1
                 THEN [b EXCEPT ![0][w] = accumulate(@, 2 * l * FrameUnit),
                                ![1][w] = accumulate(@, 2 * r * FrameUnit)]
                 ELSE [b EXCEPT ![0][w] = accumulate(@, (l + r) * FrameUnit)]
        np    == advance(v.sourceSamplePosition, v.pitchRatio)
        bad   == IF validRead(sound, pos) # "none" THEN validRead(sound, pos)
                 ELSE validRead(sound, pos + 1)
        st1   == withBuffer(st, target, b1)
    IN  [st1 EXCEPT !.voice.adsr = a1,
                    !.voice.startingGain = IF captureStartingGain THEN envelopeValue ELSE @,
                    !.voice.sourceSamplePosition = np,
                    !.mon.frames = IF target = "out" THEN @ + 1 ELSE @,
                    !.mon.fadeGain = IF target = "fade" /\ captureStartingGain
                                     THEN envelopeValue ELSE @,
                    !.mon.badRead = IF @ = "none" THEN bad ELSE @,
                    !.mon.decreased = @ \/ np < v.sourceSamplePosition \/ np < 0]

\* if (sourceSamplePosition > playingSound->length) { stopNote (0.0f, false); break; }
\* and, otherwise, the next iteration of the loop
afterFrame(st1, target, s, w, numSamples, ub) ==
    IF pastEnd(st1.voice.sourceSamplePosition, Sounds[s].length)
    THEN CHOOSE r \in
            {[x EXCEPT !.mon.nestedChanged =
                            @ \/ (st1.voice.renderingFade /\ x.voice # st1.voice)] :
                x \in {stopNote([st1 EXCEPT !.mon.overrun = @ \/ target = "out"],
                                FALSE, ub)}} : TRUE
    ELSE renderLoop(st1, target, s, w + 1, numSamples - 1, FALSE, ub)

\* while (--numSamples >= 0) { ... }
renderLoop(st, target, s, w, numSamples, captureStartingGain, ub) ==
    IF numSamples - 1 < 0 THEN st
    ELSE CHOOSE r \in {afterFrame(st1, target, s, w, numSamples, ub) :
                         st1 \in {renderFrame(st, target, s, w, captureStartingGain, ub)}} : TRUE

\* AudioBuffer::copyFrom (channel, 0, fadeBuffer->getReadPointer (channel), numSamples):
\* source frames past the end of the fade buffer are not the buffer's
copyFrom(dest, channel, source, numSamples, ub) ==
    [dest EXCEPT ![channel] =
        [i \in DOMAIN dest[channel] |->
            IF i < numSamples
            THEN (IF i \in DOMAIN source THEN source[i] ELSE ub * Unit)
            ELSE dest[channel][i]]]

RECURSIVE copyChannels(_, _, _, _, _)
copyChannels_firstOnly(dest, fade, channel, numSamples, ub) ==
    IF NumChannels(fade) > 0 /\ NumChannels(dest) > 0
    THEN copyFrom(dest, 0, fade[0], numSamples, ub)
    ELSE dest
copyChannels(dest, fade, channel, numSamples, ub) ==
    IF channel = NumChannels(dest) THEN dest
    ELSE copyChannels(IF NumChannels(fade) > channel
                      THEN copyFrom(dest, channel, fade[channel], numSamples, ub)
                      ELSE dest,
                      fade, channel + 1, numSamples, ub)

\* branch (A): isFading = false and the copy of the fade buffer
fadeEmission_keepsFlag(st, target, numSamples, ub) ==
    withBuffer(st, target,
               copyChannels(bufferOf(st, target), st.voice.fadeBuffer, 0, numSamples, ub))
fadeEmission(st, target, numSamples, ub) ==
    LET st1 == [st EXCEPT !.voice.isFading = FALSE,
                          !.mon.badFadeRead = @ \/ numSamples > NumFrames(st.voice.fadeBuffer)]
    IN  withBuffer(st1, target,
                   copyChannels(bufferOf(st1, target), st1.voice.fadeBuffer, 0, numSamples, ub))

renderNextBlock_playbackFirst(st, target, startSample, numSamples, ub) ==
    LET st0 == [st EXCEPT !.mon.fadeRenders = IF target = "fade" THEN @ + 1 ELSE @]
        at(b) == IF target = "out" THEN [st0 EXCEPT !.mon.branch = b] ELSE st0
    IN  IF st0.voice.currentlyPlayingSound # nullptr
        THEN renderLoop(at("B"), target, st0.voice.currentlyPlayingSound,
                        startSample, numSamples, TRUE, ub)
        ELSE IF st0.voice.isFading
        THEN fadeEmission(at("A"), target, numSamples, ub)
        ELSE at("C")
renderNextBlock(st, target, startSample, numSamples, ub) ==
    LET st0 == [st EXCEPT !.mon.fadeRenders = IF target = "fade" THEN @ + 1 ELSE @]
        at(b) == IF target = "out" THEN [st0 EXCEPT !.mon.branch = b] ELSE st0
    IN  IF st0.voice.isFading
        THEN fadeEmission(at("A"), target, numSamples, ub)
        ELSE IF st0.voice.currentlyPlayingSound # nullptr
        THEN renderLoop(at("B"), target, st0.voice.currentlyPlayingSound,
                        startSample, numSamples, TRUE, ub)
        ELSE at("C")

\* ---------------------------------------------------------------- stopNote
\* the hard stop after its renderNextBlock call has returned: the gain ramp,
\* the clear of the tail, isFading, clearCurrentNote and adsr.reset
\* int32_t endSample = bufferSize;
\* if (pitchRatio < 1.0) endSample = static_cast<int32_t>(endSample * pitchRatio);
endSampleOf_whole(bufferSize, pitchRatio) == bufferSize
endSampleOf(bufferSize, pitchRatio) ==
    IF pitchRatio < PosDen THEN (bufferSize * pitchRatio) \div PosDen ELSE bufferSize

\* the two applyGainRamp calls and the clear of the tail
rampedFade(v3) ==
    LET endSample == endSampleOf(v3.bufferSize, v3.pitchRatio)
        f1  == applyGainRamp(v3.fadeBuffer, 0, 0, endSample, v3.startingGain)
        f2  == IF NumChannels(f1) > 1
               THEN applyGainRamp(f1, 1, 0, endSample, v3.startingGain)
               ELSE f1
    IN  clear(f2, endSample, v3.bufferSize - endSample)

finishFade_keepsEnvelope(st2) ==
    LET v3  == [st2.voice EXCEPT !.renderingFade = FALSE]
    IN  clearCurrentNote([st2 EXCEPT !.voice = [v3 EXCEPT !.fadeBuffer = rampedFade(v3),
                                                          !.isFading = TRUE],
                                     !.mon.generated = v3.fadeBuffer])
finishFade(st2) ==
    LET v3  == [st2.voice EXCEPT !.renderingFade = FALSE]
    IN  clearCurrentNote([st2 EXCEPT !.voice = [v3 EXCEPT !.fadeBuffer = rampedFade(v3),
                                                          !.isFading = TRUE,
                                                          !.adsr = adsrReset(@)],
                                     !.mon.generated = v3.fadeBuffer])

stopNote_guardResets(st, allowTailOff, ub) ==
    IF allowTailOff
    THEN [st EXCEPT !.voice.adsr = adsrNoteOff(@)]
    ELSE IF st.voice.renderingFade
    THEN [st EXCEPT !.mon.suppressed = @ + 1, !.voice.adsr = adsrReset(@)]
    ELSE CHOOSE r \in
            {finishFade(st2) :
                st2 \in {renderNextBlock(
                            [st EXCEPT !.voice.fadeBuffer = clear(@, 0, st.voice.bufferSize),
                                       !.voice.renderingFade = TRUE],
                            "fade", 0, st.voice.bufferSize, ub)}} : TRUE
stopNote(st, allowTailOff, ub) ==
    IF allowTailOff
    THEN [st EXCEPT !.voice.adsr = adsrNoteOff(@)]
    ELSE IF st.voice.renderingFade
    THEN [st EXCEPT !.mon.suppressed = @ + 1]
    ELSE CHOOSE r \in
            {finishFade(st2) :
                st2 \in {renderNextBlock(
                            [st EXCEPT !.voice.fadeBuffer = clear(@, 0, st.voice.bufferSize),
                                       !.voice.renderingFade = TRUE],
                            "fade", 0, st.voice.bufferSize, ub)}} : TRUE

\* ------------------------------------------------------------ the machine
VARIABLES
    voice,    \* the SamplerVoice's members and its current sound
    output,   \* the host's block: as rendered, if the last handler was
              \* renderNextBlock; the next, fresh block otherwise (startNote
              \* and stopNote are not given the host's buffer)
    mon,      \* what the last handler did (see MonInit)
    call      \* the last handler called by the host and its arguments; the
              \* Sound of the last startNote (started); afterFade: 1 if the
              \* call is the render that emitted the fade of a hard stop, 2 if
              \* it is a later render with no startNote or stopNote since;
              \* quiet: no startNote yet, or the voice has been idle at the
              \* entry of a handler since the last startNote

vars == <<voice, output, mon, call>>

\* the voice is idle: no sound, no pending fade, not inside a hard stop
Idle(v) == v.currentlyPlayingSound = nullptr /\ ~v.isFading /\ ~v.renderingFade

\* the buffer the host passes to renderNextBlock: every frame holds 1.0,
\* the sum of what other voices have rendered so far
HostBuffer(numCh) == [c \in 0 .. numCh - 1 |-> [i \in 0 .. OutLen - 1 |-> Unit]]

Entry(out) == [voice |-> voice, output |-> out, mon |-> MonInit]

Init ==
    /\ voice = SamplerVoice(BufferSize)
    /\ output = HostBuffer(1)
    /\ mon = MonInit
    /\ call = [op |-> "new", startSample |-> 0, numSamples |-> 0, allowTailOff |-> FALSE,
               afterFade |-> 0, started |-> nullptr,
               midiNoteNumber |-> 0, velocity |-> 0, quiet |-> TRUE]

Return(st, c) ==
    /\ voice' = st.voice
    /\ output' = IF c.op = "renderNextBlock" THEN st.output ELSE HostBuffer(1)
    /\ mon' = st.mon
    /\ call' = c

\* the host starts a note on the voice
StartNote ==
    \E on \in NoteOns, s \in SoundIds :
        /\ appliesToNote(s, on.midiNoteNumber)
        /\ \E st \in {startVoice(Entry(output), on.midiNoteNumber, on.velocity, s)} :
            Return(st,
               [op |-> "startNote", startSample |-> 0, numSamples |-> 0,
                allowTailOff |-> FALSE, afterFade |-> 0, started |-> s,
                midiNoteNumber |-> on.midiNoteNumber, velocity |-> on.velocity,
                quiet |-> FALSE])

\* an invalid read happened in the handler: only then does the value such
\* a read delivers show in the result
InvalidRead(st) == st.mon.badRead # "none" \/ st.mon.badFadeRead

\* the host stops the voice, with or without tail-off
StopNote ==
    \E allowTailOff \in BOOLEAN :
        \E st0 \in {stopNote(Entry(output), allowTailOff, 0)} :
        \E ub \in IF InvalidRead(st0) THEN Garbage ELSE {0} :
        \E st \in {IF ub = 0 THEN st0 ELSE stopNote(Entry(output), allowTailOff, ub)} :
            Return(st,
                   [op |-> "stopNote", startSample |-> 0, numSamples |-> 0,
                    allowTailOff |-> allowTailOff, afterFade |-> 0,
                    started |-> call.started,
                    midiNoteNumber |-> 0, velocity |-> 0,
                    quiet |-> (call.quiet \/ Idle(voice))])

\* the host renders numSamples >= 1 frames of the voice into its buffer,
\* from frame startSample on
RenderNextBlock ==
    \E numCh \in 1 .. 2, startSample \in 0 .. OutLen - 1 :
        \E numSamples \in 1 .. OutLen - startSample :
        \E st0 \in {renderNextBlock(Entry(HostBuffer(numCh)), "out", startSample, numSamples, 0)} :
        \E ub \in IF InvalidRead(st0) THEN Garbage ELSE {0} :
        \E st \in {IF ub = 0 THEN st0
                   ELSE renderNextBlock(Entry(HostBuffer(numCh)), "out",
                                        startSample, numSamples, ub)} :
            Return(st,
                   [op |-> "renderNextBlock", startSample |-> startSample,
                    numSamples |-> numSamples, allowTailOff |-> FALSE,
                    afterFade |-> IF call.afterFade >= 1 THEN 2
                                  ELSE IF voice.isFading /\ voice.currentlyPlayingSound = nullptr
                                  THEN 1
                                  ELSE 0,
                    started |-> call.started,
                    midiNoteNumber |-> 0, velocity |-> 0,
                    quiet |-> (call.quiet \/ Idle(voice))])

Next == StartNote \/ StopNote \/ RenderNextBlock

Spec == Init /\ [][Next]_vars

\* the host's audio callback keeps rendering blocks
FairSpec == Spec /\ WF_vars(RenderNextBlock)

TypeOK ==
    /\ voice.isFading \in BOOLEAN
    /\ voice.renderingFade \in BOOLEAN
    /\ voice.currentlyPlayingSound \in {nullptr} \cup SoundIds
    /\ voice.sourceSamplePosition \in Int
    /\ voice.startingGain \in 0 .. EnvDen

\* ------------------------------------------------------------- properties
IsRender == call.op = "renderNextBlock"
IsHardStop == call.op = "stopNote" /\ ~call.allowTailOff
\* the frames [startSample, startSample + numSamples) of the last call
InWindow(i) == call.startSample <= i /\ i < call.startSample + call.numSamples
\* renderNextBlock on v takes the playback branch, on a Sound that has data
Playback(v) ==
    /\ ~v.isFading
    /\ v.currentlyPlayingSound # nullptr
    /\ ~IsEmptySound(v.currentlyPlayingSound)
    /\ v.pitchRatio > 0

\* C1: every renderNextBlock leaves the output frames outside
\* [startSample, startSample + numSamples) as the host passed them.
C1_NoWriteOutsideWindow ==
    IsRender =>
        \A c \in DOMAIN output : \A i \in DOMAIN output[c] :
            ~InWindow(i) => output[c][i] = Unit

\* C2: a hard stop called while isFading is set, right after a first hard
\* stop, changes neither the fade buffer nor isFading, startingGain, the
\* envelope or the current sound.
C2_SecondHardStopNoEffect ==
    [][(IsHardStop /\ voice.isFading /\ call'.op = "stopNote" /\ ~call'.allowTailOff)
          => /\ voice'.fadeBuffer = voice.fadeBuffer
             /\ voice'.isFading = voice.isFading
             /\ voice'.startingGain = voice.startingGain
             /\ voice'.adsr = voice.adsr
             /\ voice'.currentlyPlayingSound = voice.currentlyPlayingSound]_vars

\* C3: no handler reads a Sound's data buffer at an index outside
\* 0 .. length + 3, the nested fade-generation render included.
C3_ReadsInsideData == mon.badRead # "oob"

\* C4: once the render that emits the fade of a hard stop has run, every
\* further render (with no startNote or stopNote in between) takes branch (C)
\* and leaves the host's block as it was; the emitting render is the only one
\* that takes branch (A).
C4_SilenceAfterFade ==
    /\ (IsRender /\ call.afterFade = 1) => (mon.branch = "A" /\ Idle(voice))
    /\ (IsRender /\ call.afterFade = 2) =>
            /\ mon.branch = "C"
            /\ output = HostBuffer(NumChannels(output))
            /\ Idle(voice)

\* a render after the one that emitted a fade that was not silent
C4_Witness ==
    /\ IsRender /\ call.afterFade = 2
    /\ \E c \in DOMAIN voice.fadeBuffer : \E i \in DOMAIN voice.fadeBuffer[c] :
            voice.fadeBuffer[c][i] # 0

\* C5: renderNextBlock on a voice whose current Sound is empty (and with no
\* fade pending) takes branch (C): it reads no Sound data, leaves the output
\* and the voice as they were.
C5_EmptySoundIsSilent ==
    [][(/\ call'.op = "renderNextBlock"
        /\ ~voice.isFading
        /\ voice.currentlyPlayingSound # nullptr
        /\ IsEmptySound(voice.currentlyPlayingSound))
          => /\ mon'.branch = "C"
             /\ mon'.badRead = "none"
             /\ output' = HostBuffer(NumChannels(output'))
             /\ voice' = voice]_vars

\* C6: after a render of a released note whose envelope has reached idle,
\* the voice has detached from its sound.
C6_DetachedWhenEnvelopeDone ==
    (IsRender /\ mon.branch = "B" /\ mon.badRead = "none" /\ voice.adsr.state = "idle")
        => voice.currentlyPlayingSound = nullptr

\* C7: a started note on a Sound with data and a positive pitch ratio leads,
\* unless another startNote comes, to the idle voice; and the idle voice stays
\* idle until the next startNote, whatever stopNote calls are made.
C7_EventuallyIdleForGood ==
    /\ ((Playback(voice) /\ call.op # "startNote")
            ~> (Idle(voice) \/ call.op = "startNote"))
    /\ [][(/\ Idle(voice)
            /\ call.started # nullptr
            /\ ~IsEmptySound(call.started)
            /\ voice.pitchRatio > 0
            /\ call'.op # "startNote") => Idle(voice')]_vars

\* the first half of C7 alone
C7_EventuallyIdle ==
    (Playback(voice) /\ call.op # "startNote") ~> (Idle(voice) \/ call.op = "startNote")

\* the least k >= 1 with sourceSamplePosition + k * pitchRatio > length
LeastOverrun(v) ==
    LET len == Sounds[v.currentlyPlayingSound].length * PosDen
    IN  CHOOSE k \in 1 .. len + 1 :
            /\ v.sourceSamplePosition + k * v.pitchRatio > len
            /\ k = 1 \/ v.sourceSamplePosition + (k - 1) * v.pitchRatio <= len

\* C8: a playback render whose read position passes length after its k-th
\* frame (k least) stops there: it has run k iterations, the frames outside
\* [startSample, startSample + k) are as the host passed them, the voice has
\* no current sound and isFading is set; a render that does not get that far
\* runs all its numSamples iterations and keeps the sound.
C8_OverrunEndsBlock ==
    [][(call'.op = "renderNextBlock" /\ Playback(voice))
          => LET k == LeastOverrun(voice)
                 n == call'.numSamples
                 first == call'.startSample
             IN  IF k <= n
                 THEN /\ mon'.overrun
                      /\ mon'.frames = k
                      /\ \A c \in DOMAIN output' : \A i \in DOMAIN output'[c] :
                            (i < first \/ i >= first + k) => output'[c][i] = Unit
                      /\ voice'.currentlyPlayingSound = nullptr
                      /\ voice'.isFading
                 ELSE /\ ~mon'.overrun
                      /\ mon'.frames = n
                      /\ voice'.currentlyPlayingSound = voice.currentlyPlayingSound
                      /\ ~voice'.isFading]_vars

\* a render that overran after two frames, one frame before the end of its
\* block, and wrote into the first of them
C8_Witness ==
    /\ IsRender /\ mon.overrun
    /\ mon.frames = 2 /\ call.numSamples = 3
    /\ output[0][0] # Unit
    /\ voice.isFading /\ voice.currentlyPlayingSound = nullptr

\* the envelope generator after k calls of getNextSample
RECURSIVE EnvAfter(_, _)
EnvAfter(a, k) == IF k = 0 THEN a ELSE EnvAfter(adsrGetNextSample(a), k - 1)

\* what frame i of a playback render adds to channel c of an output of
\* numCh channels, in units of 1/Unit: the linearly interpolated source
\* value times velocity times the envelope value of that frame
Contribution(v, numCh, c, i) ==
    LET data  == Sounds[v.currentlyPlayingSound].data
        p     == v.sourceSamplePosition + i * v.pitchRatio
        pos   == p \div PosDen
        alpha == p % PosDen
        env   == EnvAfter(v.adsr, i + 1).envelopeVal
        lin(ch) == data[ch][pos] * (PosDen - alpha) + data[ch][pos + 1] * alpha
        l     == lin(0) * v.lgain * env
        r     == (IF 1 \in DOMAIN data THEN lin(1) ELSE lin(0)) * v.rgain * env
        scale == PosDen * VelDen * EnvDen
    IN  IF numCh > 1
        THEN (IF c = 0 THEN (l * Unit) \div scale ELSE (r * Unit) \div scale)
        ELSE ((l + r) * Unit) \div (2 * scale)

C10_PositionMonotone ==
    [][/\ voice'.sourceSamplePosition >= 0
       /\ ~mon'.decreased
       /\ call'.op = "startNote" => voice'.sourceSamplePosition = 0
       /\ call'.op # "startNote"
             => voice'.sourceSamplePosition >= voice.sourceSamplePosition]_vars

\* a hard stop whose fade-generation render moved the read position past
\* the end of the sample
C10_Witness ==
    /\ IsHardStop /\ mon.fadeRenders = 1 /\ mon.suppressed = 1
    /\ voice.sourceSamplePosition > 0

\* C11: startNote on a Sound sets sourceSamplePosition to 0 and both gains
\* to the velocity, switches the envelope on, and sets pitchRatio to
\* 2^((note - root) / 12) * sourceSampleRate / hostSampleRate: 1 for the root
\* note at matching rates, 2 one octave above it.
C11_StartNoteSetsPlayback ==
    [][call'.op = "startNote"
          => LET snd  == Sounds[call'.started]
                 d    == call'.midiNoteNumber - snd.midiRootNote
                 oct  == (IF d >= 0 THEN d ELSE 0 - d) \div 12
             IN  /\ voice'.currentlyPlayingSound = call'.started
                 /\ voice'.sourceSamplePosition = 0
                 /\ voice'.lgain = call'.velocity
                 /\ voice'.rgain = call'.velocity
                 /\ voice'.adsr.state \in {"attack", "sustain"}
                 /\ d % 12 = 0
                 /\ IF d >= 0
                    THEN voice'.pitchRatio * HostSampleRate
                            = PosDen * Pow2(oct) * snd.sourceSampleRate
                    ELSE voice'.pitchRatio * HostSampleRate * Pow2(oct)
                            = PosDen * snd.sourceSampleRate
                 /\ (d = 0 /\ snd.sourceSampleRate = HostSampleRate)
                        => voice'.pitchRatio = PosDen
                 /\ (d = 12 /\ snd.sourceSampleRate = HostSampleRate)
                        => voice'.pitchRatio = 2 * PosDen]_vars

\* a note started at half velocity on the stereo Sound, whose rate is twice
\* the host's, one octave below the root (pitchRatio 1), on a voice that had
\* played before and had moved its read position
C11_Witness ==
    /\ call.op = "startNote" /\ call.started = 2 /\ call.midiNoteNumber = 48
    /\ voice.pitchRatio = PosDen /\ voice.lgain = 1 /\ voice.rgain = 1
    /\ voice.sourceSamplePosition = 0
    /\ \E c \in DOMAIN voice.fadeBuffer : \E i \in DOMAIN voice.fadeBuffer[c] :
            voice.fadeBuffer[c][i] # 0

\* a handler has run a hard stop that the reentrancy guard did not suppress
RanHardStop == DOMAIN mon.generated # {}

\* C12: after a hard stop that was not suppressed, with endSample = bufferSize
\* if pitchRatio >= 1 and floor(bufferSize * pitchRatio) otherwise:
\* 0 <= endSample <= bufferSize, the fade-buffer frames from endSample on are
\* zero, and frame i < endSample is the generated frame times
\* startingGain * (endSample - i) / endSample.
C12_FadeRampAndTail ==
    RanHardStop =>
        \E endSample \in 0 .. voice.bufferSize :
            /\ IF voice.pitchRatio >= PosDen
               THEN endSample = voice.bufferSize
               ELSE /\ endSample * PosDen <= voice.bufferSize * voice.pitchRatio
                    /\ voice.bufferSize * voice.pitchRatio < (endSample + 1) * PosDen
            /\ \A c \in DOMAIN voice.fadeBuffer :
                  \A i \in DOMAIN voice.fadeBuffer[c] :
                      IF i >= endSample
                      THEN voice.fadeBuffer[c][i] = 0
                      ELSE voice.fadeBuffer[c][i] * EnvDen * endSample
                              = mon.generated[c][i] * voice.startingGain * (endSample - i)

\* a hard stop of a note played one octave below the root (pitchRatio 1/2):
\* the render generated two frames, the ramp kept the first and the clear
\* of the tail zeroed the second
C12_Witness ==
    /\ IsHardStop /\ RanHardStop
    /\ 2 * voice.pitchRatio = PosDen
    /\ mon.generated[0][0] # 0 /\ mon.generated[0][1] # 0
    /\ voice.fadeBuffer[0][0] # 0 /\ voice.fadeBuffer[0][1] = 0

\* C13: a hard stop calls renderNextBlock on the fade buffer exactly once,
\* whether the host calls it or an overrun in the host's render raises it; a
\* stopNote raised inside that render returns at once, changes nothing of
\* the voice and renders nothing; no other handler renders into the fade
\* buffer; renderingFade is false whenever a handler has returned.
C13_HardStopBoundedRecursion ==
    /\ ~voice.renderingFade
    /\ ~mon.nestedChanged
    /\ mon.suppressed <= mon.fadeRenders
    /\ IsHardStop => (mon.fadeRenders = 1 /\ RanHardStop)
    /\ IsRender => mon.fadeRenders = (IF mon.overrun THEN 1 ELSE 0)
    /\ (call.op = "startNote" \/ (call.op = "stopNote" /\ call.allowTailOff))
            => mon.fadeRenders = 0

\* a render of the host that overran and raised a hard stop, whose
\* fade-generation render overran again and raised a stopNote that the
\* guard cut short
C13_Witness ==
    /\ IsRender /\ mon.overrun
    /\ mon.fadeRenders = 1 /\ mon.suppressed = 1
    /\ mon.fadeGain >= 0

\* C14: every hard stop that was not suppressed, from whatever state of the
\* voice, ends with isFading set, no current sound, the envelope reset to
\* idle and renderingFade false.
C14_HardStopEndState ==
    RanHardStop =>
        /\ voice.isFading
        /\ voice.currentlyPlayingSound = nullptr
        /\ voice.adsr.state = "idle" /\ voice.adsr.envelopeVal = 0
        /\ ~voice.renderingFade

\* a hard stop of a voice that was not playing (its fade-generation render
\* produced no frame) after a note had been started on it
C14_Witness ==
    /\ IsHardStop /\ RanHardStop
    /\ mon.fadeGain = -1 /\ call.started # nullptr
    /\ voice.isFading

\* C15: renderNextBlock entered with isFading set clears isFading and makes
\* the frames [0, numSamples) of every output channel the fade buffer also
\* has equal to the fade buffer's, whatever the output held; nothing else of
\* the voice changes: read position, envelope, startingGain, pitchRatio, fade
\* buffer and current sound stay as they were. (Frames of the fade buffer
\* exist up to bufferSize.)
C15_FadeEmissionCopies ==
    [][(call'.op = "renderNextBlock" /\ voice.isFading)
          => /\ mon'.branch = "A"
             /\ ~voice'.isFading
             /\ \A c \in DOMAIN output' \cap DOMAIN voice.fadeBuffer :
                   \A i \in DOMAIN output'[c] \cap DOMAIN voice.fadeBuffer[c] :
                       i < call'.numSamples => output'[c][i] = voice.fadeBuffer[c][i]
             /\ voice' = [voice EXCEPT !.isFading = FALSE]]_vars

\* the fade of a hard stop emitted into a stereo block, on a voice that has
\* been given a new note in between: the right channel's first frame is the
\* fade's, neither the host's 1.0 nor silence
C15_Witness ==
    /\ IsRender /\ mon.branch = "A"
    /\ NumChannels(output) = 2
    /\ output[1][0] = voice.fadeBuffer[1][0]
    /\ output[1][0] # Unit /\ output[1][0] # 0
    /\ voice.currentlyPlayingSound # nullptr

\* C16: the startingGain a hard stop's gain ramp uses is the envelope value
\* of the first frame of that hard stop's own fade-generation render, in
\* every state a hard stop can be called in.
C16_RampGainIsFresh ==
    RanHardStop => (mon.fadeGain >= 0 /\ voice.startingGain = mon.fadeGain)

\* C17: startNote leaves isFading and the fade buffer as they are; the first
\* render after a startNote on a voice whose fade is pending takes the fade
\* emission branch only: it runs no playback frame and leaves the new note's
\* read position, envelope and sound alone; the render after that takes the
\* playback branch, starting at position 0.
C17_FadeBeforeNewNote ==
    [][/\ call'.op = "startNote"
            => /\ voice'.isFading = voice.isFading
               /\ voice'.fadeBuffer = voice.fadeBuffer
       /\ (call.op = "startNote" /\ voice.isFading /\ call'.op = "renderNextBlock")
            => /\ mon'.branch = "A" /\ mon'.frames = 0
               /\ voice'.sourceSamplePosition = 0
               /\ voice'.adsr = voice.adsr
               /\ voice'.currentlyPlayingSound = call.started
               /\ ~voice'.isFading
       /\ (/\ IsRender /\ mon.branch = "A" /\ voice.currentlyPlayingSound # nullptr
           /\ call'.op = "renderNextBlock")
            => /\ voice.sourceSamplePosition = 0
               /\ mon'.branch = "B" /\ mon'.frames >= 1
               /\ ~mon'.overrun
                     => voice'.sourceSamplePosition = mon'.frames * voice.pitchRatio
               /\ ~IsEmptySound(voice.currentlyPlayingSound)
                     => \A c \in DOMAIN output' :
                           output'[c][call'.startSample]
                              = Unit + Contribution([voice EXCEPT !.sourceSamplePosition = 0],
                                                    NumChannels(output'), c, 0)]_vars

\* the first render after a startNote on a voice whose fade was pending:
\* it has emitted the old, audible fade and the new note is still at
\* position 0 with its sound attached
C17_Witness ==
    /\ IsRender /\ mon.branch = "A" /\ mon.frames = 0
    /\ voice.currentlyPlayingSound # nullptr /\ ~IsEmptySound(voice.currentlyPlayingSound)
    /\ voice.sourceSamplePosition = 0 /\ voice.pitchRatio > 0
    /\ voice.fadeBuffer[0][0] # 0 /\ output[0][0] = voice.fadeBuffer[0][0]

\* C18: a voice that has been idle since the last startNote (or was never
\* started) leaves the host's block as it was in every render, also after
\* stopNote calls made on it while it was idle.
C18_IdleVoiceNeverWrites ==
    (IsRender /\ call.quiet) => output = HostBuffer(NumChannels(output))

\* C19: no handler reads or writes the fade buffer outside its bufferSize
\* frames; the fade emission reads fade-buffer frames [0, numSamples), which
\* must lie inside [0, bufferSize).
C19_FadeBufferAccessInside ==
    /\ ~mon.badFadeRead
    /\ DOMAIN voice.fadeBuffer = 0 .. 1
    /\ \A c \in DOMAIN voice.fadeBuffer : DOMAIN voice.fadeBuffer[c] = 0 .. voice.bufferSize - 1

====
